---------------------------- MODULE Spec2Model ----------------------------
(***************************************************************************)
(* Model of the expense tracker's tools: addExpense, viewExpenses and      *)
(* getInsights (period resolution, aggregation, health scoring) over the   *)
(* expenses / expense_categories tables.                                   *)
(*                                                                         *)
(* Conventions of the model:                                               *)
(*  - a JavaScript Date is its time value in MINUTES since the epoch (UTC);*)
(*    the local getters and setters go through the runtime's zone tz (its  *)
(*    offsets are local minus UTC, in minutes, with a daylight-saving      *)
(*    interval), toISOString() reads the UTC calendar date;                *)
(*  - a "YYYY-MM-DD" string is the tuple <<y, m, d>> with m in 1..12, an   *)
(*    omitted date argument is NoDate;                                     *)
(*  - a DATE column holds a day number (days since 1970-01-01);            *)
(*  - amounts are whole rupees; a percentage or rate is the exact rational *)
(*    [num, den], compared by cross multiplication (for amounts below      *)
(*    10^15 the double computation (a / t) * 100 compares the same way     *)
(*    against the thresholds the code uses);                               *)
(*  - SQL NULL and JavaScript null / undefined are the value NoValue.      *)
(***************************************************************************)
EXTENDS Integers, Sequences, FiniteSets, TLC

VARIABLES
    now,         \* the instant "new Date()" yields during the invocation
    tz,          \* time zone of the runtime: [std, dst, from, to]
    expenses,    \* table expenses: sequence of rows, the id is the index
    categories,  \* table expense_categories: set of [id, name]
    op,          \* operation in flight: "idle", "add", "view", "insights", "health"
    pc,          \* position inside the operation
    args,        \* the invocation's context (input) record
    loc,         \* the handler's local variables
    pool,        \* the invocation's connection pool: "none", "open", "ended"
    outcome,     \* "none", "returned" or "raised": how the invocation ended
    result,      \* the value returned to the caller
    fault        \* what failed during the invocation: subset of {"ai", "db", "notfound"}

vars == <<now, tz, expenses, categories, op, pc, args, loc, pool, outcome, result, fault>>

NoValue == "<null>"
\* An omitted date argument, and an absent optional value of a non-string
\* type: the empty tuple; a present one is the 1-tuple of the value.
NoDate == <<>>
None == <<>>
Some(v) == <<v>>

-----------------------------------------------------------------------------
(* Calendar arithmetic behind Date: ECMAScript MakeDay / YearFromTime.      *)

MinPerDay == 1440

\* Day number of y-m-d, m in 1..12, proleptic Gregorian calendar.
DaysFromCivil(y, m, d) ==
    LET yy  == IF m <= 2 THEN y - 1 ELSE y
        era == yy \div 400
        yoe == yy - era * 400
        mp  == IF m > 2 THEN m - 3 ELSE m + 9
        doy == (153 * mp + 2) \div 5 + d - 1
        doe == yoe * 365 + yoe \div 4 - yoe \div 100 + doy
    IN  era * 146097 + doe - 719468

\* The calendar date [y, m, d] of a day number, m in 1..12.
CivilFromDays(z) ==
    LET zz  == z + 719468
        era == zz \div 146097
        doe == zz - era * 146097
        yoe == (doe - doe \div 1460 + doe \div 36524 - doe \div 146096) \div 365
        doy == doe - (365 * yoe + yoe \div 4 - yoe \div 100)
        mp  == (5 * doy + 2) \div 153
        d   == doy - (153 * mp + 2) \div 5 + 1
        m   == IF mp < 10 THEN mp + 3 ELSE mp - 9
        y   == yoe + era * 400 + (IF m <= 2 THEN 1 ELSE 0)
    IN  [y |-> y, m |-> m, d |-> d]

\* MakeDay(year, month, date): month is 0-based and may lie outside 0..11,
\* date may lie outside the month; both carry over.
MakeDay(y, m0, d) ==
    DaysFromCivil(y + (m0 \div 12), (m0 % 12) + 1, 1) + d - 1

\* A zone is [std, dst, from, to]: the offset is dst at the instants of
\* from .. to - 1 and std otherwise (std = dst: no daylight saving).
FixedZone(offset) == [std |-> offset, dst |-> offset, from |-> 0, to |-> 0]
OffsetAt(z, t) == IF z.from <= t /\ t < z.to THEN z.dst ELSE z.std

\* LocalTime(t) and UTC(tlocal) of ECMAScript: a local time that is skipped
\* or repeated at a transition takes the offset in force before it.
LocalTime(t, z) == t + OffsetAt(z, t)
UTC(tlocal, z) ==
    LET a == tlocal - z.std
        b == tlocal - z.dst
        okA == OffsetAt(z, a) = z.std
        okB == OffsetAt(z, b) = z.dst
    IN  IF okA /\ ~okB THEN a
        ELSE IF okB /\ ~okA THEN b
        ELSE IF okA THEN b
        ELSE a

\* Local calendar fields of a Date.
LocalDay(t, z) == LocalTime(t, z) \div MinPerDay
LocalTod(t, z) == LocalTime(t, z) % MinPerDay
getFullYear(t, z) == CivilFromDays(LocalDay(t, z)).y
getMonth(t, z) == CivilFromDays(LocalDay(t, z)).m - 1
getDate(t, z) == CivilFromDays(LocalDay(t, z)).d
getDay(t, z) == (LocalDay(t, z) + 4) % 7

\* date.setDate(n): same local year, month and time of day, day of month n.
setDate(t, n, z) ==
    UTC(MakeDay(getFullYear(t, z), getMonth(t, z), n) * MinPerDay + LocalTod(t, z), z)

\* new Date(year, monthIndex, day): local midnight.
NewDateYMD(y, m0, d, z) == UTC(MakeDay(y, m0, d) * MinPerDay, z)

\* date.toISOString().split('T')[0]: the UTC calendar date.
toISODate(t) ==
    LET c == CivilFromDays(t \div MinPerDay) IN <<c.y, c.m, c.d>>

\* new Date("YYYY-MM-DD"): UTC midnight of that date.
ParseDate(s) == DaysFromCivil(s[1], s[2], s[3]) * MinPerDay

\* A 'YYYY-MM-DD' parameter compared with a DATE column.
DateToDays(s) == DaysFromCivil(s[1], s[2], s[3])

-----------------------------------------------------------------------------
(* Period resolution of getInsights.                                        *)

\* analysisType 'monthly': first and last day of today's month and of the
\* month before, each a local midnight serialised with toISOString.
MonthlyPeriod(t, z) ==
    LET y == getFullYear(t, z)
        m == getMonth(t, z)
        firstDayOfMonth == NewDateYMD(y, m, 1, z)
        lastDayOfMonth  == NewDateYMD(y, m + 1, 0, z)
        prevMonth       == NewDateYMD(y, m - 1, 1, z)
        prevMonthEnd    == NewDateYMD(y, m, 0, z)
    IN  [currentStartDate  |-> toISODate(firstDayOfMonth),
         currentEndDate    |-> toISODate(lastDayOfMonth),
         previousStartDate |-> toISODate(prevMonth),
         previousEndDate   |-> toISODate(prevMonthEnd)]

\* analysisType 'weekly': today moved back by its day of week, and six days on.
WeeklyPeriod(t, z) ==
    LET weekStart     == setDate(t, getDate(t, z) - getDay(t, z), z)
        weekEnd       == setDate(weekStart, getDate(weekStart, z) + 6, z)
        prevWeekStart == setDate(weekStart, getDate(weekStart, z) - 7, z)
        prevWeekEnd   == setDate(weekEnd, getDate(weekEnd, z) - 7, z)
    IN  [currentStartDate  |-> toISODate(weekStart),
         currentEndDate    |-> toISODate(weekEnd),
         previousStartDate |-> toISODate(prevWeekStart),
         previousEndDate   |-> toISODate(prevWeekEnd)]

\* analysisType 'yearly': the strings are built from today's local year.
YearlyPeriod(t, z) ==
    LET y == getFullYear(t, z)
    IN  [currentStartDate  |-> <<y, 1, 1>>,
         currentEndDate    |-> <<y, 12, 31>>,
         previousStartDate |-> <<y - 1, 1, 1>>,
         previousEndDate   |-> <<y - 1, 12, 31>>]

\* analysisType 'custom': the given bounds, today's ISO date for an omitted
\* one, and a window of daysDiff days ending the day before the start.
CustomPeriod(startDate, endDate, t, z) ==
    LET currentStartDate == IF startDate # NoDate THEN startDate ELSE toISODate(t)
        currentEndDate   == IF endDate # NoDate THEN endDate ELSE toISODate(t)
        daysDiff  == (ParseDate(currentEndDate) - ParseDate(currentStartDate)) \div MinPerDay
        prevEnd0  == ParseDate(currentStartDate)
        prevEnd   == setDate(prevEnd0, getDate(prevEnd0, z) - 1, z)
        prevStart == setDate(prevEnd, getDate(prevEnd, z) - daysDiff, z)
    IN  [currentStartDate  |-> currentStartDate,
         currentEndDate    |-> currentEndDate,
         previousStartDate |-> toISODate(prevStart),
         previousEndDate   |-> toISODate(prevEnd)]

ResolvePeriod(analysisType, startDate, endDate, t, z) ==
    CASE analysisType = "monthly" -> MonthlyPeriod(t, z)
      [] analysisType = "weekly"  -> WeeklyPeriod(t, z)
      [] analysisType = "yearly"  -> YearlyPeriod(t, z)
      [] OTHER                    -> CustomPeriod(startDate, endDate, t, z)

-----------------------------------------------------------------------------
(* The queries of getFinancialData over the table tbl (a sequence of rows)  *)
(* and the category table cats.                                             *)

RECURSIVE SumAmount(_, _)
\* SUM(amount) over the rows with index in S.
SumAmount(tbl, S) ==
    IF S = {} THEN 0
    ELSE LET i == CHOOSE j \in S : TRUE
         IN  tbl[i].amount + SumAmount(tbl, S \ {i})

\* WHERE user_id = $1 AND transaction_date BETWEEN $2 AND $3
InPeriod(tbl, userId, startDate, endDate) ==
    {i \in DOMAIN tbl :
        /\ tbl[i].user_id = userId
        /\ tbl[i].transaction_date >= DateToDays(startDate)
        /\ tbl[i].transaction_date <= DateToDays(endDate)}

\* All orders of the keys K (sequences without repetition).
Perms(K) ==
    {f \in [1..Cardinality(K) -> K] : \A i, j \in DOMAIN f : i # j => f[i] # f[j]}

\* ORDER BY amount DESC over groups keyed by K: every order the database may
\* return, groups of equal amount in any order. amt maps a key to its sum.
OrderDesc(K, amt) ==
    {f \in Perms(K) : \A i, j \in DOMAIN f : i < j => amt[f[i]] >= amt[f[j]]}

\* ORDER BY transaction_date: the keys are distinct, the order is unique.
OrderAsc(K) ==
    CHOOSE f \in Perms(K) : \A i, j \in DOMAIN f : i < j => f[i] < f[j]

\* SELECT transaction_type, SUM(amount) ... GROUP BY transaction_type
TotalsQuery(tbl, userId, startDate, endDate) ==
    LET R == InPeriod(tbl, userId, startDate, endDate)
    IN  {[transaction_type |-> k,
          total |-> SumAmount(tbl, {i \in R : tbl[i].transaction_type = k})] :
            k \in {tbl[i].transaction_type : i \in R}}

\* The forEach over totalsResult.rows: the total of the given kind, else 0.
TotalOfKind(rows, kind) ==
    IF \E r \in rows : r.transaction_type = kind
    THEN (CHOOSE r \in rows : r.transaction_type = kind).total
    ELSE 0

\* LEFT JOIN expense_categories ec ON e.category_id = ec.id: ec.name or NULL.
CategoryName(cats, categoryId) ==
    IF \E c \in cats : c.id = categoryId
    THEN (CHOOSE c \in cats : c.id = categoryId).name
    ELSE NoValue

\* percentage: totalExpenses > 0 ? (amount / totalExpenses) * 100 : 0
Percentage(amount, totalExpenses) ==
    IF totalExpenses > 0 THEN [num |-> amount * 100, den |-> totalExpenses]
    ELSE [num |-> 0, den |-> 1]

\* The expense rows of the period grouped by ec.name.
CategoryGroup(tbl, cats, R, name) ==
    {i \in R : tbl[i].transaction_type = "expense"
               /\ CategoryName(cats, tbl[i].category_id) = name}

CategoryKeys(tbl, cats, R) ==
    {CategoryName(cats, tbl[i].category_id) :
        i \in {j \in R : tbl[j].transaction_type = "expense"}}

\* The category query and its map to categoryBreakdown, for every row order
\* the ORDER BY admits.
CategoryBreakdowns(tbl, cats, userId, startDate, endDate, totalExpenses) ==
    LET R == InPeriod(tbl, userId, startDate, endDate)
        K == CategoryKeys(tbl, cats, R)
        amt == [name \in K |-> SumAmount(tbl, CategoryGroup(tbl, cats, R, name))]
    IN  {[n \in DOMAIN f |->
            [category   |-> f[n],
             amount     |-> amt[f[n]],
             percentage |-> Percentage(amt[f[n]], totalExpenses),
             count      |-> Cardinality(CategoryGroup(tbl, cats, R, f[n]))]] :
          f \in OrderDesc(K, amt)}

\* The trends query and its map to dailyTrends.
DailyTrends(tbl, userId, startDate, endDate) ==
    LET R == {i \in InPeriod(tbl, userId, startDate, endDate) :
                tbl[i].transaction_type = "expense"}
        f == OrderAsc({tbl[i].transaction_date : i \in R})
    IN  [n \in DOMAIN f |->
            [date   |-> f[n],
             amount |-> SumAmount(tbl, {i \in R : tbl[i].transaction_date = f[n]})]]

\* COALESCE(payment_method, 'Not specified') as method
MethodLabel(paymentMethod) ==
    IF paymentMethod = NoValue THEN "Not specified" ELSE paymentMethod

\* GROUP BY payment_method: the grouping key of a row.
MethodGroupKey(row) == row.payment_method

\* The payment query and its map to paymentMethods, for every row order the
\* ORDER BY admits.
PaymentMethods(tbl, userId, startDate, endDate) ==
    LET R == InPeriod(tbl, userId, startDate, endDate)
        K == {MethodGroupKey(tbl[i]) : i \in R}
        Grp(k) == {i \in R : MethodGroupKey(tbl[i]) = k}
        amt == [k \in K |-> SumAmount(tbl, Grp(k))]
    IN  {[n \in DOMAIN f |->
            [method |-> MethodLabel(f[n]),
             amount |-> amt[f[n]],
             count  |-> Cardinality(Grp(f[n]))]] :
          f \in OrderDesc(K, amt)}

-----------------------------------------------------------------------------
(* calculateFinancialHealth                                                 *)

\* savingsRate as the rational num / den with den > 0.
SavingsRate(data) ==
    IF data.totalIncome > 0
    THEN [num |-> (data.totalIncome - data.totalExpenses) * 100, den |-> data.totalIncome]
    ELSE [num |-> 0, den |-> 1]

\* r >= k and r <= k for a rational r and an integer k.
RatGeq(r, k) == r.num >= k * r.den
RatLeq(r, k) == r.num <= k * r.den

\* SavingsPoints awarding 50 points for a savings rate of 20% or more.
SavingsPointsTooMany(data) ==
    IF RatGeq(SavingsRate(data), 20) THEN 50
    ELSE IF RatGeq(SavingsRate(data), 10) THEN 30
    ELSE IF RatGeq(SavingsRate(data), 0) THEN 20
    ELSE 0

SavingsPoints(data) ==
    LET savingsRate == SavingsRate(data)
    IN  IF RatGeq(savingsRate, 20) THEN 40
        ELSE IF RatGeq(savingsRate, 10) THEN 30
        ELSE IF RatGeq(savingsRate, 0) THEN 20
        ELSE 0

TopCategoryPercentage(data) ==
    IF Len(data.categoryBreakdown) > 0 THEN data.categoryBreakdown[1].percentage
    ELSE [num |-> 0, den |-> 1]

\* ConcentrationPoints with strict comparisons at 40 and 50.
ConcentrationPointsStrict(data) ==
    LET p == TopCategoryPercentage(data)
    IN  IF p.num < 40 * p.den THEN 30
        ELSE IF p.num < 50 * p.den THEN 20
        ELSE 10

ConcentrationPoints(data) ==
    LET topCategoryPercentage == TopCategoryPercentage(data)
    IN  IF RatLeq(topCategoryPercentage, 40) THEN 30
        ELSE IF RatLeq(topCategoryPercentage, 50) THEN 20
        ELSE 10

RegularityPoints(data) ==
    IF Len(data.dailyTrends) >= 7 THEN 30 ELSE 20

HealthStatus(score) ==
    IF score >= 80 THEN "Excellent"
    ELSE IF score >= 60 THEN "Good"
    ELSE IF score >= 40 THEN "Fair"
    ELSE "Needs Improvement"

HealthAreas(data) ==
    (IF ~RatGeq(SavingsRate(data), 20) THEN <<"Increase savings rate">> ELSE <<>>)
    \o (IF ~RatLeq(TopCategoryPercentage(data), 40)
        THEN <<"Diversify spending across categories">> ELSE <<>>)
    \o (IF Len(data.dailyTrends) < 7
        THEN <<"Maintain regular expense tracking">> ELSE <<>>)

calculateFinancialHealth(data) ==
    LET score == SavingsPoints(data) + ConcentrationPoints(data) + RegularityPoints(data)
    IN  [score  |-> score,
         status |-> HealthStatus(score),
         areas  |-> HealthAreas(data)]

-----------------------------------------------------------------------------
(* parseExpenseWithFallback. A text is a sequence of one-character strings; *)
(* the rupee sign is the character Rupee. Amounts are whole rupees: the     *)
(* texts of the model carry no non-zero decimal fraction.                   *)

Rupee == "INR-sign"

Digits == {"0", "1", "2", "3", "4", "5", "6", "7", "8", "9"}
DigitVal(c) ==
    CASE c = "0" -> 0 [] c = "1" -> 1 [] c = "2" -> 2 [] c = "3" -> 3 [] c = "4" -> 4
      [] c = "5" -> 5 [] c = "6" -> 6 [] c = "7" -> 7 [] c = "8" -> 8 [] c = "9" -> 9

UpperLetters == {"A", "B", "C", "D", "E", "F", "G", "H", "I", "J", "K", "L", "M", "N", "O", "P", "Q", "R", "S", "T", "U", "V", "W", "X", "Y", "Z"}
LowerLetters == {"a", "b", "c", "d", "e", "f", "g", "h", "i", "j", "k", "l", "m", "n", "o", "p", "q", "r", "s", "t", "u", "v", "w", "x", "y", "z"}
Letters == UpperLetters \cup LowerLetters
Whitespace == {" "}

\* String.prototype.toLowerCase, character by character.
LowerChar(c) ==
    CASE c = "A" -> "a"
      [] c = "B" -> "b"
      [] c = "C" -> "c"
      [] c = "D" -> "d"
      [] c = "E" -> "e"
      [] c = "F" -> "f"
      [] c = "G" -> "g"
      [] c = "H" -> "h"
      [] c = "I" -> "i"
      [] c = "J" -> "j"
      [] c = "K" -> "k"
      [] c = "L" -> "l"
      [] c = "M" -> "m"
      [] c = "N" -> "n"
      [] c = "O" -> "o"
      [] c = "P" -> "p"
      [] c = "Q" -> "q"
      [] c = "R" -> "r"
      [] c = "S" -> "s"
      [] c = "T" -> "t"
      [] c = "U" -> "u"
      [] c = "V" -> "v"
      [] c = "W" -> "w"
      [] c = "X" -> "x"
      [] c = "Y" -> "y"
      [] c = "Z" -> "z"
      [] OTHER -> c
toLowerCase(text) == [i \in DOMAIN text |-> LowerChar(text[i])]

\* text.includes(word)
Includes(text, word) ==
    \E i \in 1..(Len(text) - Len(word) + 1) :
        SubSeq(text, i, i + Len(word) - 1) = word

\* The end of the longest run of characters of the class C starting at i
\* (i - 1 when text[i] is not in C).
RECURSIVE RunEnd(_, _, _)
RunEnd(text, i, C) ==
    IF i <= Len(text) /\ text[i] \in C THEN RunEnd(text, i + 1, C) ELSE i - 1

\* (?:,\d+)* from position i: the end of the last group consumed.
RECURSIVE CommaGroupsEnd(_, _)
CommaGroupsEnd(text, i) ==
    IF i + 1 <= Len(text) /\ text[i] = "," /\ text[i + 1] \in Digits
    THEN CommaGroupsEnd(text, RunEnd(text, i + 1, Digits) + 1)
    ELSE i - 1

\* (?:\.\d+)? from position i: the end of the fraction, i - 1 without one.
FractionEnd(text, i) ==
    IF i + 1 <= Len(text) /\ text[i] = "." /\ text[i + 1] \in Digits
    THEN RunEnd(text, i + 1, Digits)
    ELSE i - 1

\* AmountMatch without the currency symbol in front of the digits.
AmountMatchBareDigits(entry) ==
    LET starts == {i \in 1..Len(entry) : entry[i] \in Digits}
    IN  IF starts = {} THEN None
        ELSE LET i  == CHOOSE k \in starts : \A l \in starts : k <= l
                 e1 == RunEnd(entry, i, Digits)
                 e2 == CommaGroupsEnd(entry, e1 + 1)
                 e3 == FractionEnd(entry, e2 + 1)
             IN  Some(SubSeq(entry, i, e3))

\* entry.match(/Rupee(\d+(?:,\d+)*(?:\.\d+)?)/): group 1 of the leftmost
\* match, None without a match.
AmountMatch(entry) ==
    LET starts == {i \in 1..(Len(entry) - 1) : entry[i] = Rupee /\ entry[i + 1] \in Digits}
    IN  IF starts = {} THEN None
        ELSE LET i  == CHOOSE k \in starts : \A l \in starts : k <= l
                 e1 == RunEnd(entry, i + 1, Digits)
                 e2 == CommaGroupsEnd(entry, e1 + 1)
                 e3 == FractionEnd(entry, e2 + 1)
             IN  Some(SubSeq(entry, i + 1, e3))

\* parseFloat(group.replace(/,/g, '')): the digits before the decimal point.
RECURSIVE DecimalValue(_)
DecimalValue(ds) ==
    IF ds = <<>> THEN 0
    ELSE DecimalValue(SubSeq(ds, 1, Len(ds) - 1)) * 10 + DigitVal(ds[Len(ds)])

ParseFloat(group) ==
    LET noCommas == SelectSeq(group, LAMBDA c : c # ",")
        intEnd   == RunEnd(noCommas, 1, Digits)
    IN  DecimalValue(SubSeq(noCommas, 1, intEnd))

DefaultAmount == 100
FallbackConfidence == 70   \* 0.7, in hundredths
MaxDescription == 100

incomeKeywords == <<
    <<"s", "a", "l", "a", "r", "y">>,
    <<"i", "n", "c", "o", "m", "e">>,
    <<"p", "a", "y", "m", "e", "n", "t", " ", "r", "e", "c", "e", "i", "v", "e", "d">>,
    <<"e", "a", "r", "n", "e", "d">>,
    <<"b", "o", "n", "u", "s">> >>

\* Object.entries(categoryMap), in insertion order.
categoryMap == <<
    <<<<"g", "r", "o", "c", "e", "r", "y">>, "Food & Dining">>,
    <<<<"g", "r", "o", "c", "e", "r", "i", "e", "s">>, "Food & Dining">>,
    <<<<"f", "o", "o", "d">>, "Food & Dining">>,
    <<<<"r", "e", "s", "t", "a", "u", "r", "a", "n", "t">>, "Food & Dining">>,
    <<<<"t", "a", "x", "i">>, "Transportation">>,
    <<<<"a", "u", "t", "o">>, "Transportation">>,
    <<<<"p", "e", "t", "r", "o", "l">>, "Transportation">>,
    <<<<"f", "u", "e", "l">>, "Transportation">>,
    <<<<"b", "i", "l", "l">>, "Bills & Utilities">>,
    <<<<"e", "l", "e", "c", "t", "r", "i", "c", "i", "t", "y">>, "Bills & Utilities">>,
    <<<<"m", "o", "b", "i", "l", "e">>, "Bills & Utilities">>,
    <<<<"s", "h", "o", "p", "p", "i", "n", "g">>, "Shopping">>,
    <<<<"c", "l", "o", "t", "h", "e", "s">>, "Shopping">>,
    <<<<"m", "o", "v", "i", "e">>, "Entertainment">>,
    <<<<"e", "n", "t", "e", "r", "t", "a", "i", "n", "m", "e", "n", "t">>, "Entertainment">>,
    <<<<"d", "o", "c", "t", "o", "r">>, "Healthcare">>,
    <<<<"m", "e", "d", "i", "c", "i", "n", "e">>, "Healthcare">>,
    <<<<"s", "c", "h", "o", "o", "l">>, "Education">>,
    <<<<"t", "r", "a", "v", "e", "l">>, "Travel & Vacation">> >>

\* FallbackCategory taking the keyword that occurs first in the text.
FallbackCategoryFirstInText(entry) ==
    LET lower == toLowerCase(entry)
        hits  == {n \in DOMAIN categoryMap : Includes(lower, categoryMap[n][1])}
        At(n) == CHOOSE i \in 1..Len(lower) :
                    /\ SubSeq(lower, i, i + Len(categoryMap[n][1]) - 1) = categoryMap[n][1]
                    /\ \A j \in 1..(i - 1) :
                          SubSeq(lower, j, j + Len(categoryMap[n][1]) - 1) # categoryMap[n][1]
    IN  IF hits = {} THEN "Miscellaneous"
        ELSE categoryMap[CHOOSE n \in hits : \A k \in hits :
                            At(n) < At(k) \/ (At(n) = At(k) /\ n <= k)][2]

\* The for ... break loop over the category table.
FallbackCategory(entry) ==
    LET lower == toLowerCase(entry)
        hits  == {n \in DOMAIN categoryMap : Includes(lower, categoryMap[n][1])}
    IN  IF hits = {} THEN "Miscellaneous"
        ELSE categoryMap[CHOOSE n \in hits : \A k \in hits : n <= k][2]

FallbackType(entry) ==
    IF \E n \in DOMAIN incomeKeywords : Includes(toLowerCase(entry), incomeKeywords[n])
    THEN "income" ELSE "expense"

\* String.prototype.trim
RECURSIVE Trim(_)
Trim(text) ==
    IF text # <<>> /\ text[1] \in Whitespace THEN Trim(Tail(text))
    ELSE IF text # <<>> /\ text[Len(text)] \in Whitespace
         THEN Trim(SubSeq(text, 1, Len(text) - 1))
         ELSE text

\* entry.match(/at\s+([A-Za-z\s]+)/i): group 1 of the leftmost match. After
\* "at", \s+ takes the whitespace run; the group needs one character more,
\* a letter after the run or, giving one back, the run's last whitespace.
MerchantMatch(entry) ==
    LET MatchAt(i) ==
            /\ i + 2 <= Len(entry)
            /\ LowerChar(entry[i]) = "a" /\ LowerChar(entry[i + 1]) = "t"
            /\ entry[i + 2] \in Whitespace
            /\ LET w == RunEnd(entry, i + 2, Whitespace)
               IN  \/ (w + 1 <= Len(entry) /\ entry[w + 1] \in Letters)
                   \/ w >= i + 3
        starts == {i \in 1..Len(entry) : MatchAt(i)}
    IN  IF starts = {} THEN None
        ELSE LET i == CHOOSE k \in starts : \A l \in starts : k <= l
                 w == RunEnd(entry, i + 2, Whitespace)
                 g == IF w + 1 <= Len(entry) /\ entry[w + 1] \in Letters
                      THEN w + 1 ELSE w
             IN  Some(SubSeq(entry, g, RunEnd(entry, g, Letters \cup Whitespace)))

parseExpenseWithFallback(entry) ==
    LET amountMatch   == AmountMatch(entry)
        merchantMatch == MerchantMatch(entry)
    IN  [amount          |-> IF amountMatch # None THEN ParseFloat(amountMatch[1])
                             ELSE DefaultAmount,
         description     |-> IF Len(entry) > MaxDescription
                             THEN SubSeq(entry, 1, MaxDescription) ELSE entry,
         category        |-> FallbackCategory(entry),
         transactionType |-> FallbackType(entry),
         merchantName    |-> IF merchantMatch # None THEN Some(Trim(merchantMatch[1]))
                             ELSE None,
         confidence      |-> FallbackConfidence]

-----------------------------------------------------------------------------
(* The tools' catch blocks and results.                                     *)

\* The insights object of a failed getInsights.
EmptyInsights ==
    [period |-> <<>>, totalIncome |-> 0, totalExpenses |-> 0, netSavings |-> 0,
     savingsRate |-> [num |-> 0, den |-> 1], topExpenseCategories |-> <<>>,
     spendingTrends |-> <<>>, paymentMethodBreakdown |-> <<>>, comparison |-> None]

EmptySummary ==
    [totalExpenses |-> 0, totalIncome |-> 0, netAmount |-> 0,
     transactionCount |-> 0, topCategories |-> <<>>]

\* The catch block of each execute: the error becomes a success=false result
\* that carries the message; nothing is rethrown and the pool is not touched.
CatchResult(operation, errorMessage) ==
    CASE operation = "add" ->
            [success |-> FALSE,
             message |-> <<"Failed to add expense", errorMessage>>]
      [] operation = "view" ->
            [success |-> FALSE, expenses |-> <<>>, summary |-> EmptySummary,
             insights |-> << <<"Failed to retrieve expenses", errorMessage>> >>]
      [] operation = "insights" ->
            [success |-> FALSE, insights |-> EmptyInsights,
             recommendations |-> << <<"Failed to generate insights", errorMessage>> >>,
             financialHealth |-> [score |-> 0, status |-> "Error",
                                  areas |-> <<"Unable to calculate">>]]

\* CatchOutcome when viewExpenses has no try / catch around its queries.
CatchOutcomeViewUncaught(operation) ==
    IF operation = "view" THEN "raised" ELSE "returned"

\* How an error thrown inside the try block leaves the handler.
CatchOutcome(operation) == "returned"

\* The pool after the catch block ran.
PoolAfterCatch(p) == p

\* An error thrown inside execute's try block.
Throw(errorMessage, failed) ==
    /\ pc' = "done"
    /\ outcome' = CatchOutcome(op)
    /\ result' = CatchResult(op, errorMessage)
    /\ pool' = PoolAfterCatch(pool)
    /\ fault' = fault \cup failed
    /\ UNCHANGED <<now, tz, expenses, categories, op, args, loc>>

-----------------------------------------------------------------------------
(* getInsights (expenseInsightsTool.execute)                                *)

EmptyCall == [q |-> 1, seen |-> <<>>, stable |-> TRUE, totalIncome |-> 0,
              totalExpenses |-> 0, categoryBreakdown |-> <<>>, dailyTrends |-> <<>>]

\* The bounds of the getFinancialData call in progress.
CallStart == IF pc = "current" THEN loc.period.currentStartDate
             ELSE loc.period.previousStartDate
CallEnd == IF pc = "current" THEN loc.period.currentEndDate
           ELSE loc.period.previousEndDate

\* The try block up to the first query: the pool is created and the period
\* resolved.
InsightsBegin(a) ==
    /\ op = "idle"
    /\ op' = "insights"
    /\ args' = a
    /\ pool' = "open"
    /\ loc' = [period |-> ResolvePeriod(a.analysisType, a.startDate, a.endDate, now, tz),
               fd |-> EmptyCall, currentData |-> None, comparisonData |-> None,
               calls |-> <<>>]
    /\ pc' = "current"
    /\ outcome' = "none"
    /\ result' = None
    /\ fault' = {}
    /\ UNCHANGED <<now, tz, expenses, categories>>

\* getFinancialData, first query: totals by transaction type.
FdTotals ==
    /\ op = "insights" /\ pc \in {"current", "previous"} /\ loc.fd.q = 1
    /\ LET rows == TotalsQuery(expenses, args.userId, CallStart, CallEnd)
       IN  loc' = [loc EXCEPT !.fd = [EmptyCall EXCEPT
                        !.q = 2, !.seen = expenses,
                        !.totalIncome = TotalOfKind(rows, "income"),
                        !.totalExpenses = TotalOfKind(rows, "expense")]]
    /\ UNCHANGED <<now, tz, expenses, categories, op, pc, args, pool, outcome, result, fault>>

\* getFinancialData, second query: category breakdown.
FdCategories ==
    /\ op = "insights" /\ pc \in {"current", "previous"} /\ loc.fd.q = 2
    /\ \E cb \in CategoryBreakdowns(expenses, categories, args.userId,
                                    CallStart, CallEnd, loc.fd.totalExpenses) :
          loc' = [loc EXCEPT !.fd.q = 3, !.fd.categoryBreakdown = cb,
                             !.fd.stable = @ /\ expenses = loc.fd.seen]
    /\ UNCHANGED <<now, tz, expenses, categories, op, pc, args, pool, outcome, result, fault>>

\* getFinancialData, third query: daily trends.
FdTrends ==
    /\ op = "insights" /\ pc \in {"current", "previous"} /\ loc.fd.q = 3
    /\ loc' = [loc EXCEPT !.fd.q = 4,
                          !.fd.dailyTrends = DailyTrends(expenses, args.userId, CallStart, CallEnd),
                          !.fd.stable = @ /\ expenses = loc.fd.seen]
    /\ UNCHANGED <<now, tz, expenses, categories, op, pc, args, pool, outcome, result, fault>>

\* getFinancialData, fourth query and return; execute then goes on to the
\* comparison call or to pool.end().
FdPayments ==
    /\ op = "insights" /\ pc \in {"current", "previous"} /\ loc.fd.q = 4
    /\ \E pm \in PaymentMethods(expenses, args.userId, CallStart, CallEnd) :
          LET data == [totalIncome       |-> loc.fd.totalIncome,
                       totalExpenses     |-> loc.fd.totalExpenses,
                       categoryBreakdown |-> loc.fd.categoryBreakdown,
                       dailyTrends       |-> loc.fd.dailyTrends,
                       paymentMethods    |-> pm]
              call == [userId |-> args.userId, startDate |-> CallStart,
                       endDate |-> CallEnd, table |-> loc.fd.seen,
                       stable |-> loc.fd.stable /\ expenses = loc.fd.seen,
                       data |-> data]
          IN  loc' = [loc EXCEPT
                        !.fd = EmptyCall,
                        !.calls = Append(@, call),
                        !.currentData = IF pc = "current" THEN Some(data) ELSE @,
                        !.comparisonData = IF pc = "previous" THEN Some(data) ELSE @]
    /\ pc' = IF pc = "current" /\ args.includeComparison THEN "previous" ELSE "finish"
    /\ UNCHANGED <<now, tz, expenses, categories, op, args, pool, outcome, result, fault>>

\* A reply of the text-generation collaborator: its lines, each with the
\* text left after the numbering and bullets are stripped and its length.
FallbackOnEmpty == <<"Monitor your top spending categories and set monthly limits",
                     "Consider using more UPI payments for better expense tracking",
                     "Look for opportunities to reduce food delivery expenses by cooking at home">>
FallbackOnError == <<"Monitor your spending patterns regularly",
                     "Set monthly budgets for each expense category",
                     "Consider investing your savings in SIP or mutual funds">>
MinLineLength == 10
MaxRecommendations == 5

\* generateAIRecommendations: ai is "absent" (no agent), "throws" (generate
\* rejects) or <<"text", lines>>.
generateAIRecommendations(ai) ==
    IF ai = <<"absent">> THEN <<>>
    ELSE IF ai = <<"throws">> THEN FallbackOnError
    ELSE LET kept == SelectSeq(ai[2], LAMBDA l : l.len > MinLineLength)
             recommendations ==
                 [n \in 1..(IF Len(kept) < MaxRecommendations THEN Len(kept)
                            ELSE MaxRecommendations) |-> kept[n].text]
         IN  IF Len(recommendations) > 0 THEN recommendations ELSE FallbackOnEmpty

\* The comparison object of the result.
Comparison(period, cur, cmp) ==
    IF cmp = None THEN None
    ELSE Some([previousPeriod |-> <<period.previousStartDate, period.previousEndDate>>,
               incomeChange   |-> [num |-> (cur.totalIncome - cmp[1].totalIncome) * 100,
                                   den |-> IF cmp[1].totalIncome > 1
                                           THEN cmp[1].totalIncome ELSE 1],
               expenseChange  |-> [num |-> (cur.totalExpenses - cmp[1].totalExpenses) * 100,
                                   den |-> IF cmp[1].totalExpenses > 1
                                           THEN cmp[1].totalExpenses ELSE 1],
               savingsChange  |-> (cur.totalIncome - cur.totalExpenses)
                                  - (cmp[1].totalIncome - cmp[1].totalExpenses)])

InsightsResult(period, cur, cmp, recommendations) ==
    [success |-> TRUE,
     insights |->
        [period |-> <<period.currentStartDate, period.currentEndDate>>,
         totalIncome |-> cur.totalIncome,
         totalExpenses |-> cur.totalExpenses,
         netSavings |-> cur.totalIncome - cur.totalExpenses,
         savingsRate |-> SavingsRate(cur),
         topExpenseCategories |-> cur.categoryBreakdown,
         spendingTrends |-> cur.dailyTrends,
         paymentMethodBreakdown |-> cur.paymentMethods,
         comparison |-> Comparison(period, cur, cmp)],
     recommendations |-> recommendations,
     financialHealth |-> calculateFinancialHealth(cur)]

\* pool.end(), the recommendations, the health score and the return.
InsightsFinish(ai) ==
    /\ op = "insights" /\ pc = "finish"
    /\ pool' = "ended"
    /\ result' = InsightsResult(loc.period, loc.currentData[1], loc.comparisonData,
                    IF args.includeAdvice THEN generateAIRecommendations(ai) ELSE <<>>)
    /\ fault' = IF args.includeAdvice /\ ai \in {<<"absent">>, <<"throws">>}
                THEN fault \cup {"ai"} ELSE fault
    /\ outcome' = "returned"
    /\ pc' = "done"
    /\ UNCHANGED <<now, tz, expenses, categories, op, args, loc>>

-----------------------------------------------------------------------------
(* viewExpenses (viewExpensesTool.execute)                                  *)

\* The dynamic WHERE clause: the rows of the user that pass every filter given.
ViewMatches(tbl, cats, a) ==
    {i \in DOMAIN tbl :
        /\ tbl[i].user_id = a.userId
        /\ (a.startDate # NoDate => tbl[i].transaction_date >= DateToDays(a.startDate))
        /\ (a.endDate # NoDate => tbl[i].transaction_date <= DateToDays(a.endDate))
        /\ (a.category # NoValue => CategoryName(cats, tbl[i].category_id) = a.category)
        /\ (a.transactionType # "all" => tbl[i].transaction_type = a.transactionType)}

\* ORDER BY e.transaction_date DESC, e.created_at DESC (rows are created in
\* id order).
RECURSIVE SortRows(_, _)
SortRows(tbl, S) ==
    IF S = {} THEN <<>>
    ELSE LET top == CHOOSE i \in S : \A j \in S :
                        \/ tbl[i].transaction_date > tbl[j].transaction_date
                        \/ (tbl[i].transaction_date = tbl[j].transaction_date /\ i >= j)
         IN  <<top>> \o SortRows(tbl, S \ {top})

\* The expenses query: the first `limit` rows, each joined with its category.
ExpensesQuery(tbl, cats, a) ==
    LET ids == SortRows(tbl, ViewMatches(tbl, cats, a))
        n   == IF Len(ids) < a.limit THEN Len(ids) ELSE a.limit
    IN  [k \in 1..n |->
            [id |-> ids[k],
             amount |-> tbl[ids[k]].amount,
             category |-> CategoryName(cats, tbl[ids[k]].category_id),
             transaction_type |-> tbl[ids[k]].transaction_type,
             payment_method |-> tbl[ids[k]].payment_method,
             transaction_date |-> tbl[ids[k]].transaction_date]]

\* The summary query: the sums are NULL (None) over no rows.
SummaryQuery(tbl, cats, a) ==
    LET R == ViewMatches(tbl, cats, a)
    IN  [total_expenses |->
            IF R = {} THEN None
            ELSE Some(SumAmount(tbl, {i \in R : tbl[i].transaction_type = "expense"})),
         total_income |->
            IF R = {} THEN None
            ELSE Some(SumAmount(tbl, {i \in R : tbl[i].transaction_type = "income"})),
         transaction_count |-> Cardinality(R)]

\* parseFloat(x || '0')
NumberOrZero(x) == IF x = None THEN 0 ELSE x[1]

TopCategoryLimit == 5

\* The top-categories query: ORDER BY amount DESC LIMIT 5, every order the
\* database may return.
TopCategories(tbl, cats, a) ==
    LET R == ViewMatches(tbl, cats, a)
        K == CategoryKeys(tbl, cats, R)
        amt == [name \in K |-> SumAmount(tbl, CategoryGroup(tbl, cats, R, name))]
    IN  {[n \in 1..(IF Len(f) < TopCategoryLimit THEN Len(f) ELSE TopCategoryLimit) |->
            [category |-> f[n],
             amount   |-> amt[f[n]],
             count    |-> Cardinality(CategoryGroup(tbl, cats, R, f[n]))]] :
          f \in OrderDesc(K, amt)}

\* The payment methods of the model whose lower-cased text includes 'upi'.
UpiMethods == {"UPI"}

HighActivity == 20

RECURSIVE SumSeqAmount(_)
SumSeqAmount(rows) ==
    IF rows = <<>> THEN 0 ELSE Head(rows).amount + SumSeqAmount(Tail(rows))

\* generateIndianSpendingInsights over the rows returned and the summary row.
\* An insight is its tag with the number it reports.
generateIndianSpendingInsights(rows, summary) ==
    LET totalExpenses == NumberOrZero(summary.total_expenses)
        totalIncome   == NumberOrZero(summary.total_income)
        Spent(name)   == SumSeqAmount(SelectSeq(rows,
                            LAMBDA r : r.transaction_type = "expense" /\ r.category = name))
        foodSpending      == Spent("Food & Dining")
        transportSpending == Spent("Transportation")
        upiTransactions   == Len(SelectSeq(rows, LAMBDA r : r.payment_method \in UpiMethods))
        totalTransactions == Len(rows)
    IN  (IF totalIncome > totalExpenses THEN << <<"saving", totalIncome - totalExpenses>> >>
         ELSE IF totalExpenses > totalIncome THEN << <<"deficit", totalExpenses - totalIncome>> >>
         ELSE <<>>)
        \o (IF foodSpending * 10 > totalExpenses * 4 THEN << <<"food", foodSpending>> >> ELSE <<>>)
        \o (IF transportSpending * 10 > totalExpenses * 3
            THEN << <<"transport", transportSpending>> >> ELSE <<>>)
        \o (IF upiTransactions * 10 > totalTransactions * 7
            THEN << <<"upi", upiTransactions>> >> ELSE <<>>)
        \o (IF Len(rows) > HighActivity THEN << <<"active", Len(rows)>> >> ELSE <<>>)

\* The try block up to the first query: the pool is created and the WHERE
\* clause built.
ViewBegin(a) ==
    /\ op = "idle"
    /\ op' = "view"
    /\ args' = a
    /\ pool' = "open"
    /\ loc' = [rows |-> <<>>, summary |-> SummaryQuery(<<>>, {}, a), topCategories |-> <<>>]
    /\ pc' = "expenses"
    /\ outcome' = "none"
    /\ result' = None
    /\ fault' = {}
    /\ UNCHANGED <<now, tz, expenses, categories>>

\* The expenses query; the database rejects a negative LIMIT.
ViewExpenses ==
    /\ op = "view" /\ pc = "expenses"
    /\ IF args.limit < 0
       THEN Throw("LIMIT must not be negative", {"db"})
       ELSE /\ loc' = [loc EXCEPT !.rows = ExpensesQuery(expenses, categories, args)]
            /\ pc' = "summary"
            /\ UNCHANGED <<now, tz, expenses, categories, op, args, pool, outcome, result, fault>>

ViewSummary ==
    /\ op = "view" /\ pc = "summary"
    /\ loc' = [loc EXCEPT !.summary = SummaryQuery(expenses, categories, args)]
    /\ pc' = "top"
    /\ UNCHANGED <<now, tz, expenses, categories, op, args, pool, outcome, result, fault>>

ViewTop ==
    /\ op = "view" /\ pc = "top"
    /\ \E top \in TopCategories(expenses, categories, args) :
          loc' = [loc EXCEPT !.topCategories = top]
    /\ pc' = "finish"
    /\ UNCHANGED <<now, tz, expenses, categories, op, args, pool, outcome, result, fault>>

\* row.transaction_date.toISOString().split('T')[0] of a DATE the driver
\* parsed as a local midnight.
RowDateText(day, z) == toISODate(UTC(day * MinPerDay, z))

\* pool.end(), the insights and the return.
ViewFinish ==
    /\ op = "view" /\ pc = "finish"
    /\ pool' = "ended"
    /\ result' =
          [success  |-> TRUE,
           expenses |-> [k \in DOMAIN loc.rows |->
                            [id |-> loc.rows[k].id,
                             amount |-> loc.rows[k].amount,
                             category |-> loc.rows[k].category,
                             transactionType |-> loc.rows[k].transaction_type,
                             paymentMethod |-> loc.rows[k].payment_method,
                             transactionDate |-> RowDateText(loc.rows[k].transaction_date, tz)]],
           summary  |-> [totalExpenses |-> NumberOrZero(loc.summary.total_expenses),
                         totalIncome |-> NumberOrZero(loc.summary.total_income),
                         netAmount |-> NumberOrZero(loc.summary.total_income)
                                       - NumberOrZero(loc.summary.total_expenses),
                         transactionCount |-> loc.summary.transaction_count,
                         topCategories |-> loc.topCategories],
           insights |-> generateIndianSpendingInsights(loc.rows, loc.summary)]
    /\ outcome' = "returned"
    /\ pc' = "done"
    /\ UNCHANGED <<now, tz, expenses, categories, op, args, loc, fault>>

-----------------------------------------------------------------------------
(* addExpense (addExpenseTool.execute)                                      *)

\* The inner try / catch around the agent call: the structured object when
\* the agent returned one, else the fallback parser's record. ai is
\* <<"absent">> (no agent), <<"throws">>, <<"noobject">> or <<"object", o>>.
Extract(ai, naturalLanguageEntry) ==
    IF ai[1] = "object" THEN ai[2]
    ELSE parseExpenseWithFallback(naturalLanguageEntry)

\* amount || extracted.amount
FinalAmount(amount, extracted) ==
    IF amount # None /\ amount[1] # 0 THEN amount[1] ELSE extracted.amount

\* transactionDate || new Date().toISOString().split('T')[0]
FinalDate(transactionDate, t) ==
    IF transactionDate # NoDate THEN transactionDate ELSE toISODate(t)

\* paymentMethod || 'Not specified'
StoredMethod(paymentMethod) ==
    IF paymentMethod = NoValue THEN "Not specified" ELSE paymentMethod

\* The row of the INSERT.
NewRow(a, extracted, categoryId, t) ==
    [user_id               |-> a.userId,
     amount                |-> FinalAmount(a.amount, extracted),
     currency              |-> "INR",
     description           |-> extracted.description,
     category_id           |-> categoryId,
     transaction_type      |-> extracted.transactionType,
     payment_method        |-> StoredMethod(a.paymentMethod),
     merchant_name         |-> extracted.merchantName,
     transaction_date      |-> DateToDays(FinalDate(a.transactionDate, t)),
     ai_suggested_category |-> TRUE,
     ai_confidence_score   |-> Some(extracted.confidence)]

AddBegin(a) ==
    /\ op = "idle"
    /\ op' = "add"
    /\ args' = a
    /\ pool' = "none"
    /\ loc' = [extracted |-> None, categoryId |-> None]
    /\ pc' = "extract"
    /\ outcome' = "none"
    /\ result' = None
    /\ fault' = {}
    /\ UNCHANGED <<now, tz, expenses, categories>>

\* AddExtract with the agent's failure thrown on to the outer catch block.
AddExtractRethrows(ai) ==
    /\ op = "add" /\ pc = "extract"
    /\ IF ai[1] # "object"
       THEN Throw("Failed to extract expense information from natural language", {"ai"})
       ELSE /\ loc' = [loc EXCEPT !.extracted = Some(ai[2])]
            /\ pool' = "open"
            /\ pc' = "lookup"
            /\ UNCHANGED <<now, tz, expenses, categories, op, args, outcome, result, fault>>

\* The agent call with its fallback, then getDbPool().
AddExtract(ai) ==
    /\ op = "add" /\ pc = "extract"
    /\ loc' = [loc EXCEPT !.extracted = Some(Extract(ai, args.naturalLanguageEntry))]
    /\ fault' = IF ai[1] # "object" THEN fault \cup {"ai"} ELSE fault
    /\ pool' = "open"
    /\ pc' = "lookup"
    /\ UNCHANGED <<now, tz, expenses, categories, op, args, outcome, result>>

\* SELECT id FROM expense_categories WHERE name = $1, and the throw on no row.
AddLookup ==
    /\ op = "add" /\ pc = "lookup"
    /\ LET found == {c \in categories : c.name = loc.extracted[1].category}
       IN  IF found = {}
           THEN Throw(<<"Category not found", loc.extracted[1].category>>, {"notfound"})
           ELSE /\ loc' = [loc EXCEPT !.categoryId = Some((CHOOSE c \in found : TRUE).id)]
                /\ pc' = "insert"
                /\ UNCHANGED <<now, tz, expenses, categories, op, args, pool, outcome,
                               result, fault>>

\* Bound of the model: the table holds at most MaxRows rows.
MaxRows == 2

\* AddInsert storing the row twice.
AddInsertTwice ==
    /\ op = "add" /\ pc = "insert"
    /\ Len(expenses) + 1 < MaxRows
    /\ expenses' = expenses \o << NewRow(args, loc.extracted[1], loc.categoryId[1], now),
                                  NewRow(args, loc.extracted[1], loc.categoryId[1], now) >>
    /\ pool' = "ended"
    /\ result' = [success |-> TRUE, expenseId |-> Len(expenses) + 2]
    /\ outcome' = "returned"
    /\ pc' = "done"
    /\ UNCHANGED <<now, tz, categories, op, args, loc, fault>>

\* The INSERT, pool.end() and the return.
AddInsert ==
    /\ op = "add" /\ pc = "insert"
    /\ Len(expenses) < MaxRows
    /\ expenses' = Append(expenses, NewRow(args, loc.extracted[1], loc.categoryId[1], now))
    /\ pool' = "ended"
    /\ result' = [success |-> TRUE,
                  expenseId |-> Len(expenses) + 1,
                  suggestedCategory |-> loc.extracted[1].category,
                  extractedAmount |-> loc.extracted[1].amount,
                  message |-> <<"Successfully added", loc.extracted[1].transactionType,
                                FinalAmount(args.amount, loc.extracted[1]),
                                loc.extracted[1].category>>]
    /\ outcome' = "returned"
    /\ pc' = "done"
    /\ UNCHANGED <<now, tz, categories, op, args, loc, fault>>

-----------------------------------------------------------------------------
(* The environment: the database failing, other writers, the caller.        *)

\* The positions at which a handler awaits a query.
QueryPositions == {"lookup", "insert", "expenses", "summary", "top", "current", "previous"}

\* pool.query rejects: the error is thrown inside the try block.
DbFail ==
    /\ op \in {"add", "view", "insights"} /\ pc \in QueryPositions
    /\ Throw("connection refused", {"db"})

\* The caller takes the result; the next invocation may start.
Return ==
    /\ pc = "done"
    /\ op' = "idle"
    /\ pc' = "idle"
    /\ args' = None
    /\ loc' = None
    /\ pool' = "none"
    /\ outcome' = "none"
    /\ result' = None
    /\ fault' = {}
    /\ UNCHANGED <<now, tz, expenses, categories>>

\* A row written to the table by another writer (the columns category_id
\* and payment_method are nullable; a NULL category_id is id 0, which no
\* category has).
ExternalInsert(row) ==
    /\ Len(expenses) < MaxRows
    /\ expenses' = Append(expenses, row)
    /\ UNCHANGED <<now, tz, categories, op, pc, args, loc, pool, outcome, result, fault>>

-----------------------------------------------------------------------------
(* Inputs of the model.                                                     *)

\* The categories the extraction prompt enumerates, as seeded.
CategoryNames == <<"Food & Dining", "Transportation", "Bills & Utilities",
                   "Shopping", "Entertainment", "Healthcare",
                   "Education", "Personal Care", "Travel & Vacation",
                   "Family & Kids", "Gifts & Donations", "Business",
                   "Investment", "EMI & Loans", "Miscellaneous">>
CategoryTable == {[id |-> n, name |-> CategoryNames[n]] : n \in DOMAIN CategoryNames}

Day(y, m, d) == DaysFromCivil(y, m, d)

ExternalRow(userId, amount, categoryId, kind, method, day) ==
    [user_id |-> userId, amount |-> amount, currency |-> "INR", description |-> <<>>,
     category_id |-> categoryId, transaction_type |-> kind, payment_method |-> method,
     merchant_name |-> None, transaction_date |-> day,
     ai_suggested_category |-> FALSE, ai_confidence_score |-> None]

ExternalRows ==
    {ExternalRow(1, 300, 1, "expense", NoValue, Day(2024, 3, 12)),
     ExternalRow(1, 1000, 15, "income", "UPI", Day(2024, 3, 11)),
     ExternalRow(2, 50, 1, "expense", "UPI", Day(2024, 3, 12)),
     ExternalRow(1, 200, 0, "expense", NoValue, Day(2024, 2, 10))}

TextFood == <<Rupee, "3", "0", "0", " ", "f", "o", "o", "d">>
TextZero == <<Rupee, "0", " ", "t", "e", "a">>
TextBonus == <<"G", "o", "t", " ", "b", "o", "n", "u", "s", " ", "a", "t", " ", "w", "o", "r", "k">>

AddArgs ==
    {[userId |-> 1, naturalLanguageEntry |-> TextFood, amount |-> None,
      transactionDate |-> NoDate, paymentMethod |-> NoValue, location |-> NoValue],
     [userId |-> 1, naturalLanguageEntry |-> TextBonus, amount |-> Some(250),
      transactionDate |-> <<2024, 3, 11>>, paymentMethod |-> "UPI", location |-> NoValue],
     [userId |-> 1, naturalLanguageEntry |-> TextZero, amount |-> None,
      transactionDate |-> NoDate, paymentMethod |-> "Cash", location |-> NoValue],
     [userId |-> 1, naturalLanguageEntry |-> TextFood, amount |-> Some(-50),
      transactionDate |-> NoDate, paymentMethod |-> "Cash", location |-> NoValue]}

\* What the categorization agent may do.
ExtractionOutcomes ==
    {<<"absent">>, <<"throws">>, <<"noobject">>,
     <<"object", [amount |-> 500, description |-> <<"c", "a", "b">>,
                  category |-> "Transportation", transactionType |-> "expense",
                  merchantName |-> None, confidence |-> 95]>>,
     <<"object", [amount |-> 80, description |-> <<"t", "e", "a">>,
                  category |-> "Groceries", transactionType |-> "expense",
                  merchantName |-> None, confidence |-> 60]>>}

ViewArgs ==
    {[userId |-> 1, startDate |-> NoDate, endDate |-> NoDate, category |-> NoValue,
      transactionType |-> "all", limit |-> 50],
     [userId |-> 1, startDate |-> <<2024, 3, 1>>, endDate |-> <<2024, 3, 31>>,
      category |-> "Food & Dining", transactionType |-> "expense", limit |-> 1],
     [userId |-> 1, startDate |-> NoDate, endDate |-> NoDate, category |-> NoValue,
      transactionType |-> "income", limit |-> -1]}

InsightsArgs ==
    {[userId |-> 1, analysisType |-> "monthly", startDate |-> NoDate, endDate |-> NoDate,
      includeComparison |-> TRUE, includeAdvice |-> TRUE],
     [userId |-> 1, analysisType |-> "weekly", startDate |-> NoDate, endDate |-> NoDate,
      includeComparison |-> FALSE, includeAdvice |-> TRUE],
     [userId |-> 1, analysisType |-> "yearly", startDate |-> NoDate, endDate |-> NoDate,
      includeComparison |-> TRUE, includeAdvice |-> FALSE],
     [userId |-> 1, analysisType |-> "custom", startDate |-> <<2024, 3, 11>>,
      endDate |-> <<2024, 3, 12>>, includeComparison |-> FALSE, includeAdvice |-> FALSE]}

\* What the text-generation agent may do when asked for advice.
AdviceOutcomes ==
    {<<"absent">>, <<"throws">>, <<"text", <<>> >>,
     <<"text", << [text |-> "Save more", len |-> 9] >> >>,
     <<"text", << [text |-> "Cook at home more often", len |-> 23],
                  [text |-> "ok", len |-> 2],
                  [text |-> "Start a monthly SIP", len |-> 19] >> >>}

\* The runtime's zone is five and a half hours east of UTC and the clock
\* reads 2024-03-13 12:00 there.
MainZones == {FixedZone(330)}
MainInstants == {Day(2024, 3, 13) * MinPerDay + 720 - 330}

-----------------------------------------------------------------------------
(* The tools over the stored rows.                                          *)

Init ==
    /\ now \in MainInstants
    /\ tz \in MainZones
    /\ expenses = <<>>
    /\ categories = CategoryTable
    /\ op = "idle"
    /\ pc = "idle"
    /\ args = None
    /\ loc = None
    /\ pool = "none"
    /\ outcome = "none"
    /\ result = None
    /\ fault = {}

AddStart == \E a \in AddArgs : AddBegin(a)
AddExtraction == \E ai \in ExtractionOutcomes : AddExtract(ai)
ViewStart == \E a \in ViewArgs : ViewBegin(a)
InsightsStart == \E a \in InsightsArgs : InsightsBegin(a)
InsightsEnd ==
    \E ai \in (IF op = "insights" /\ args.includeAdvice THEN AdviceOutcomes
               ELSE {<<"unused">>}) : InsightsFinish(ai)
OtherWriter == \E row \in ExternalRows : ExternalInsert(row)

Next ==
    \/ AddStart
    \/ AddExtraction
    \/ AddLookup
    \/ AddInsert
    \/ ViewStart
    \/ ViewExpenses
    \/ ViewSummary
    \/ ViewTop
    \/ ViewFinish
    \/ InsightsStart
    \/ FdTotals
    \/ FdCategories
    \/ FdTrends
    \/ FdPayments
    \/ InsightsEnd
    \/ DbFail
    \/ OtherWriter
    \/ Return

Spec == Init /\ [][Next]_vars

-----------------------------------------------------------------------------
(* Period resolution over many reference dates: getInsights on an empty     *)
(* table, for every local date of a range, several times of day and zones.  *)

\* Bound of the model: the reference dates are FirstDay .. FirstDay + DaySpan.
DaySpan == 84
FirstDay == Day(2023, 12, 25)
TimesOfDay == {0, 90, 720, 1170, 1410}
\* Five hours west of UTC with daylight saving from 2024-03-10 02:00 to
\* 2024-11-03 02:00 local time (the instants of the model lie between
\* November 2023 and March 2025).
DstZone ==
    [std |-> -300, dst |-> -240,
     from |-> Day(2024, 3, 10) * MinPerDay + 420,
     to   |-> Day(2024, 11, 3) * MinPerDay + 360]
Zones == {FixedZone(-300), FixedZone(0), FixedZone(330), DstZone}

CustomBounds ==
    {<<NoDate, NoDate>>, <<<<2024, 1, 10>>, <<2024, 1, 20>>>>,
     <<<<2024, 1, 20>>, <<2024, 1, 10>>>>, <<<<2024, 2, 28>>, <<2024, 3, 1>>>>,
     <<<<2023, 12, 1>>, NoDate>>, <<<<2024, 11, 4>>, <<2024, 11, 6>>>>}

PeriodArgs ==
    {[userId |-> 1, analysisType |-> k, startDate |-> NoDate, endDate |-> NoDate,
      includeComparison |-> TRUE, includeAdvice |-> FALSE] :
        k \in {"weekly", "monthly", "yearly"}}
    \cup
    {[userId |-> 1, analysisType |-> "custom", startDate |-> b[1], endDate |-> b[2],
      includeComparison |-> TRUE, includeAdvice |-> FALSE] : b \in CustomBounds}

InitPeriod ==
    /\ tz \in Zones
    /\ \E d \in FirstDay..(FirstDay + DaySpan), tod \in TimesOfDay :
          now = UTC(d * MinPerDay + tod, tz)
    /\ expenses = <<>>
    /\ categories = CategoryTable
    /\ op = "idle"
    /\ pc = "idle"
    /\ args = None
    /\ loc = None
    /\ pool = "none"
    /\ outcome = "none"
    /\ result = None
    /\ fault = {}

InsightsStartPeriod == \E a \in PeriodArgs : InsightsBegin(a)

NextPeriod ==
    \/ InsightsStartPeriod
    \/ FdTotals
    \/ FdCategories
    \/ FdTrends
    \/ FdPayments
    \/ InsightsEnd
    \/ Return

SpecPeriod == InitPeriod /\ [][NextPeriod]_vars

-----------------------------------------------------------------------------
(* calculateFinancialHealth over aggregation results of every shape.        *)

\* Bound of the model: an aggregation result has 0 .. MaxTrendDays dates.
MaxTrendDays == 10

HealthIncomes == {0, 100, 60000}
HealthExpenses == {0, 80, 81, 90, 91, 100, 101, 45000}
HealthTopPercentages ==
    {[num |-> 0, den |-> 1], [num |-> 35, den |-> 1], [num |-> 40, den |-> 1],
     [num |-> 4001, den |-> 100], [num |-> 50, den |-> 1], [num |-> 101, den |-> 2],
     [num |-> 100, den |-> 1]}

HealthData(income, expense, top, days) ==
    [totalIncome |-> income,
     totalExpenses |-> expense,
     categoryBreakdown |->
        IF top = None THEN <<>>
        ELSE << [category |-> "Food & Dining", amount |-> expense,
                 percentage |-> top[1], count |-> 1] >>,
     dailyTrends |-> [n \in 1..days |-> [date |-> FirstDay + n, amount |-> 1]],
     paymentMethods |-> <<>>]

HealthInputs ==
    {HealthData(i, e, t, n) :
        i \in HealthIncomes, e \in HealthExpenses,
        t \in {None} \cup {Some(q) : q \in HealthTopPercentages},
        n \in 0..MaxTrendDays}

InitHealth ==
    /\ now \in MainInstants
    /\ tz \in MainZones
    /\ expenses = <<>>
    /\ categories = CategoryTable
    /\ op = "health"
    /\ pc = "score"
    /\ args \in HealthInputs
    /\ loc = None
    /\ pool = "none"
    /\ outcome = "none"
    /\ result = None
    /\ fault = {}

ScoreHealth ==
    /\ op = "health" /\ pc = "score"
    /\ result' = calculateFinancialHealth(args)
    /\ outcome' = "returned"
    /\ pc' = "done"
    /\ UNCHANGED <<now, tz, expenses, categories, op, args, loc, pool, fault>>

NextHealth == ScoreHealth

SpecHealth == InitHealth /\ [][NextHealth]_vars

-----------------------------------------------------------------------------
(* getFinancialData called twice with the same user and interval, over      *)
(* every table of a bounded set, other writers inserting in between or not. *)

AggregateRows ==
    {ExternalRow(1, 300, 1, "expense", NoValue, Day(2024, 3, 12)),
     ExternalRow(1, 300, 2, "expense", "Cash", Day(2024, 3, 12)),
     ExternalRow(1, 1000, 15, "income", "UPI", Day(2024, 3, 11)),
     ExternalRow(2, 50, 1, "expense", "UPI", Day(2024, 3, 12))}

\* The tables of at most MaxRows rows.
AggregateTables ==
    UNION {[1..n -> AggregateRows] : n \in 0..MaxRows}

AggregateIntervals ==
    {<<<<2024, 3, 11>>, <<2024, 3, 12>>>>, <<<<2024, 1, 1>>, <<2024, 1, 31>>>>}

\* execute at its first getFinancialData call, the second call having the
\* arguments of the first.
InitAggregate ==
    /\ now \in MainInstants
    /\ tz \in MainZones
    /\ expenses \in AggregateTables
    /\ categories = CategoryTable
    /\ op = "insights"
    /\ pc = "current"
    /\ \E u \in {1, 2}, b \in AggregateIntervals :
          /\ args = [userId |-> u, analysisType |-> "custom", startDate |-> b[1],
                     endDate |-> b[2], includeComparison |-> TRUE,
                     includeAdvice |-> FALSE]
          /\ loc = [period |-> [currentStartDate |-> b[1], currentEndDate |-> b[2],
                                previousStartDate |-> b[1], previousEndDate |-> b[2]],
                    fd |-> EmptyCall, currentData |-> None, comparisonData |-> None,
                    calls |-> <<>>]
    /\ pool = "open"
    /\ outcome = "none"
    /\ result = None
    /\ fault = {}

NextAggregate ==
    \/ FdTotals
    \/ FdCategories
    \/ FdTrends
    \/ FdPayments
    \/ OtherWriter

SpecAggregate == InitAggregate /\ [][NextAggregate]_vars

-----------------------------------------------------------------------------
(* parseExpenseWithFallback over a bounded set of entry texts.              *)

\* Bound of the model: a text is a phrase after at most MaxTextLen characters
\* of ParseAlphabet.
MaxTextLen == 3
ParseAlphabet == {Rupee, "0", "5", ",", ".", " ", "a", "T"}
ShortTexts == UNION {[1..n -> ParseAlphabet] : n \in 0..MaxTextLen}

Scenario1Text ==
    <<"P", "a", "i", "d", " ", Rupee, "5", "0", "0", " ", "f", "o", "r", " ",
      "g", "r", "o", "c", "e", "r", "i", "e", "s", " ", "a", "t", " ",
      "B", "i", "g", "B", "a", "z", "a", "a", "r">>

Phrases ==
    {<<>>,
     <<"5", "0">>,
     <<"T", "a", "x", "i", " ", "t", "o", " ", "F", "O", "O", "D", " ", "c", "o", "u", "r", "t">>,
     <<"S", "a", "l", "a", "r", "y", " ", Rupee, "5", "0", ",", "0", "0", "0", ".", "0", "0">>,
     <<"a", "u", "t", "o", "m", "o", "b", "i", "l", "e", " ", "b", "i", "l", "l">>,
     [i \in 1..(MaxDescription + 1) |-> IF i % 7 = 0 THEN " " ELSE "x"],
     Scenario1Text}

\* The amounts of the model are whole rupees: the digits after a decimal
\* point of the matched amount are zeros.
WholeRupees(entry) ==
    LET m == AmountMatch(entry)
    IN  m = None \/ \A i \in DOMAIN m[1] :
                       (\E j \in 1..(i - 1) : m[1][j] = ".") => m[1][i] = "0"

ParseTexts == {e \in {s \o p : s \in ShortTexts, p \in Phrases} : WholeRupees(e)}

InitParse ==
    /\ now \in MainInstants
    /\ tz \in MainZones
    /\ expenses = <<>>
    /\ categories = CategoryTable
    /\ op = "parse"
    /\ pc = "parse"
    /\ args \in ParseTexts
    /\ loc = None
    /\ pool = "none"
    /\ outcome = "none"
    /\ result = None
    /\ fault = {}

ParseEntry ==
    /\ op = "parse" /\ pc = "parse"
    /\ result' = parseExpenseWithFallback(args)
    /\ outcome' = "returned"
    /\ pc' = "done"
    /\ UNCHANGED <<now, tz, expenses, categories, op, args, loc, pool, fault>>

NextParse == ParseEntry

SpecParse == InitParse /\ [][NextParse]_vars

-----------------------------------------------------------------------------
(* viewExpenses over tables of many rows and several limits.                *)

\* Bound of the model: the table holds 0 .. MaxViewRows rows, every fourth
\* one of another user.
MaxViewRows == 30

ViewTable(n) ==
    [i \in 1..n |->
        ExternalRow(IF i % 4 = 0 THEN 2 ELSE 1, 10 * (1 + (i % 3)), 1 + (i % 2),
                    IF i % 5 = 0 THEN "income" ELSE "expense",
                    IF i % 3 = 0 THEN "UPI" ELSE NoValue,
                    Day(2024, 3, 1) + (i % 7))]

ViewLimits == {5, 20, 21, 50}

ManyViewArgs ==
    {[userId |-> 1, startDate |-> NoDate, endDate |-> NoDate, category |-> NoValue,
      transactionType |-> k, limit |-> l] : k \in {"all", "expense"}, l \in ViewLimits}

InitView ==
    /\ now \in MainInstants
    /\ tz \in MainZones
    /\ \E n \in 0..MaxViewRows : expenses = ViewTable(n)
    /\ categories = CategoryTable
    /\ op = "idle"
    /\ pc = "idle"
    /\ args = None
    /\ loc = None
    /\ pool = "none"
    /\ outcome = "none"
    /\ result = None
    /\ fault = {}

ViewStartMany == \E a \in ManyViewArgs : ViewBegin(a)

NextView ==
    \/ ViewStartMany
    \/ ViewExpenses
    \/ ViewSummary
    \/ ViewTop
    \/ ViewFinish
    \/ Return

SpecView == InitView /\ [][NextView]_vars

-----------------------------------------------------------------------------
(* The report step generate-expense-report around getInsights.              *)

MaxInsights == 10

\* inputData of the step.
ReportArgs ==
    [defaultUserId : {1, 2}, reportType : {"weekly", "monthly"},
     includeInsights : BOOLEAN, includeComparison : BOOLEAN]

\* The context the step passes to expenseInsightsTool.execute; the field
\* step keeps the step's inputData during the call.
ReportContext(inputData) ==
    [userId |-> inputData.defaultUserId,
     analysisType |-> IF inputData.reportType = "weekly" THEN "weekly" ELSE "monthly",
     startDate |-> NoDate, endDate |-> NoDate,
     includeComparison |-> inputData.includeComparison,
     includeAdvice |-> inputData.includeInsights,
     step |-> inputData]

\* The step up to the call of getInsights for its one user.
ReportStart == \E inputData \in ReportArgs : InsightsBegin(ReportContext(inputData))

\* The import of the tool module rejects: the step's catch block.
ReportImportFails ==
    /\ op = "idle"
    /\ \E inputData \in ReportArgs : args' = inputData
    /\ op' = "report"
    /\ pc' = "done"
    /\ loc' = [insightsResult |-> None]
    /\ result' = [success |-> FALSE, reportsGenerated |-> 0,
                  summary |-> <<"Failed to generate expense reports", "Cannot find module">>,
                  insights |-> <<>>]
    /\ outcome' = "returned"
    /\ fault' = {"import"}
    /\ UNCHANGED <<now, tz, expenses, categories, pool>>

\* ReportFinish counting a report for every user processed.
ReportFinishCountsAll ==
    /\ op = "insights" /\ pc = "done" /\ "step" \in DOMAIN args
    /\ op' = "report"
    /\ args' = args.step
    /\ loc' = [insightsResult |-> Some(result)]
    /\ result' = [success |-> TRUE, reportsGenerated |-> 1,
                  summary |-> <<"Generated", 1, args.step.reportType>>,
                  insights |-> <<>>]
    /\ UNCHANGED <<now, tz, expenses, categories, pc, pool, outcome, fault>>

\* getInsights has returned: the count, the collected recommendations, the
\* summary and the step's return.
ReportFinish ==
    /\ op = "insights" /\ pc = "done" /\ "step" \in DOMAIN args
    /\ op' = "report"
    /\ args' = args.step
    /\ loc' = [insightsResult |-> Some(result)]
    /\ LET reportsGenerated == IF result.success THEN 1 ELSE 0
           allInsights == IF result.success THEN result.recommendations ELSE <<>>
       IN  result' = [success |-> TRUE,
                      reportsGenerated |-> reportsGenerated,
                      summary |-> <<"Generated", reportsGenerated, args.step.reportType>>,
                      insights |-> SubSeq(allInsights, 1,
                                      IF Len(allInsights) < MaxInsights
                                      THEN Len(allInsights) ELSE MaxInsights)]
    /\ UNCHANGED <<now, tz, expenses, categories, pc, pool, outcome, fault>>

\* The workflow takes the step's result.
ReportReturn == op = "report" /\ Return

NextReport ==
    \/ ReportStart
    \/ ReportImportFails
    \/ FdTotals
    \/ FdCategories
    \/ FdTrends
    \/ FdPayments
    \/ InsightsEnd
    \/ DbFail
    \/ OtherWriter
    \/ ReportFinish
    \/ ReportReturn

SpecReport == Init /\ [][NextReport]_vars

-----------------------------------------------------------------------------
(* Properties.                                                              *)

\* The failure message a result carries: addExpense in message, viewExpenses
\* in insights[1], getInsights in recommendations[1].
FailureMessage(operation, r) ==
    CASE operation = "add" -> r.message
      [] operation = "view" -> r.insights[1]
      [] operation = "insights" -> r.recommendations[1]

\* C1: addExpense, viewExpenses and getInsights never raise to the caller:
\* an invocation ends by returning a result with a boolean success flag, and
\* when a query failed (or the category was not found) the flag is false and
\* the result carries the message of the error.
C1_NeverRaises ==
    /\ outcome # "raised"
    /\ (op \in {"add", "view", "insights"} /\ pc = "done") =>
          /\ outcome = "returned"
          /\ result.success \in BOOLEAN
          /\ (fault \cap {"db", "notfound"} # {}) =>
                /\ result.success = FALSE
                /\ Len(FailureMessage(op, result)) = 2
                /\ FailureMessage(op, result)[1] \in
                      {"Failed to add expense", "Failed to retrieve expenses",
                       "Failed to generate insights"}

\* C1 witness: a getInsights invocation whose query failed has returned.
C1_Witness ==
    op = "insights" /\ pc = "done" /\ "db" \in fault /\ outcome = "returned"
    /\ result.success = FALSE

\* C2: an invocation that opened a pool has ended it when it returns.
C2_PoolReleased ==
    (op \in {"add", "view", "insights"} /\ pc = "done" /\ pool # "none") => pool = "ended"

\* The resolved bounds as day numbers.
CurStart == DateToDays(loc.period.currentStartDate)
CurEnd == DateToDays(loc.period.currentEndDate)
PrevStart == DateToDays(loc.period.previousStartDate)
PrevEnd == DateToDays(loc.period.previousEndDate)

Disjoint(a1, a2, b1, b2) == ~ \E d \in a1..a2 : d \in b1..b2

NonCustom == op = "insights" /\ args.analysisType \in {"weekly", "monthly", "yearly"}

\* C3: for weekly, monthly and yearly the two intervals are disjoint, have
\* the same number of days, and the previous one ends the day before the
\* current one starts.
C3_DisjointEqualAdjacent ==
    NonCustom =>
        /\ Disjoint(PrevStart, PrevEnd, CurStart, CurEnd)
        /\ PrevEnd - PrevStart = CurEnd - CurStart
        /\ PrevEnd = CurStart - 1

\* C4: for custom with start <= end the previous interval ends the day
\* before the start and spans as many days as the current one; Jan 10 to
\* Jan 20 gives Dec 30 to Jan 9.
C4_CustomPrevious ==
    (op = "insights" /\ args.analysisType = "custom" /\ CurStart <= CurEnd) =>
        /\ PrevEnd = CurStart - 1
        /\ PrevStart = PrevEnd - (CurEnd - CurStart)
        /\ (args.startDate = <<2024, 1, 10>> /\ args.endDate = <<2024, 1, 20>>) =>
              /\ loc.period.previousStartDate = <<2023, 12, 30>>
              /\ loc.period.previousEndDate = <<2024, 1, 9>>

\* C5: a custom range with start after end is rejected: no aggregation runs
\* and getInsights reports failure.
C5_InvalidRangeRejected ==
    (op = "insights" /\ args.analysisType = "custom"
        /\ args.startDate # NoDate /\ args.endDate # NoDate
        /\ DateToDays(args.startDate) > DateToDays(args.endDate)) =>
        /\ pc \notin {"current", "previous", "finish"}
        /\ pc = "done" => result.success = FALSE

\* The local calendar day of the reference instant, and a day's day of week.
Today == LocalDay(now, tz)
DayOfWeek(day) == (day + 4) % 7

\* C6: for weekly the current interval starts on the most recent day of
\* week 0 on or before today, ends six days later and contains today; the
\* previous interval is the seven days before it.
C6_WeekStartsOnDayZero ==
    (op = "insights" /\ args.analysisType = "weekly") =>
        /\ DayOfWeek(CurStart) = 0
        /\ CurStart <= Today /\ Today <= CurStart + 6
        /\ CurEnd = CurStart + 6
        /\ PrevStart = CurStart - 7 /\ PrevEnd = CurStart - 1

Scored == op = "health" /\ pc = "done"

\* C7: the health score lies in 0..100 and is the sum of a savings
\* contribution in 0..40, a concentration contribution in 0..30 and a
\* regularity contribution in 0..30.
C7_ScoreBounded ==
    Scored =>
        /\ result.score \in 0..100
        /\ SavingsPoints(args) \in 0..40
        /\ ConcentrationPoints(args) \in 0..30
        /\ RegularityPoints(args) \in 0..30
        /\ result.score = SavingsPoints(args) + ConcentrationPoints(args)
                          + RegularityPoints(args)

\* C7 witness: a scored aggregation with all three contributions at their
\* maximum.
C7_Witness ==
    Scored /\ result.score = 100 /\ SavingsPoints(args) = 40
    /\ ConcentrationPoints(args) = 30 /\ RegularityPoints(args) = 30

\* The reference of section 4.3, on the aggregation result d.
RefSavings(d) ==
    IF d.totalIncome <= 0 THEN 20
    ELSE LET saved == d.totalIncome - d.totalExpenses
         IN  CASE 5 * saved >= d.totalIncome  -> 40
               [] 5 * saved < d.totalIncome /\ 10 * saved >= d.totalIncome -> 30
               [] 10 * saved < d.totalIncome /\ saved >= 0 -> 20
               [] saved < 0 -> 0

RefConcentration(d) ==
    IF d.categoryBreakdown = <<>> THEN 30
    ELSE LET p == Head(d.categoryBreakdown).percentage
         IN  CASE p.num <= 40 * p.den -> 30
               [] p.num > 40 * p.den /\ p.num <= 50 * p.den -> 20
               [] p.num > 50 * p.den -> 10

RefRegularity(d) ==
    IF Cardinality({d.dailyTrends[n].date : n \in DOMAIN d.dailyTrends}) >= 7
    THEN 30 ELSE 20

RefScore(d) == RefSavings(d) + RefConcentration(d) + RefRegularity(d)

RefStatus(score) ==
    CASE score >= 80 -> "Excellent"
      [] score \in 60..79 -> "Good"
      [] score \in 40..59 -> "Fair"
      [] score < 40 -> "Needs Improvement"

Scenario2 == HealthData(60000, 45000, Some([num |-> 35, den |-> 1]), 10)
NoTransactions == HealthData(0, 0, None, 0)

\* C8: calculateFinancialHealth returns the score and status of the section
\* 4.3 reference; income 60000, expense 45000, top category 35%, 10 dates
\* gives 100 and Excellent; no transactions gives 70 and Good.
C8_MatchesReference ==
    Scored =>
        /\ result.score = RefScore(args)
        /\ result.status = RefStatus(RefScore(args))
        /\ args = Scenario2 => (result.score = 100 /\ result.status = "Excellent")
        /\ args = NoTransactions => (result.score = 70 /\ result.status = "Good")

\* C8 witness: scenario 2 was scored.
C8_Witness == Scored /\ args = Scenario2 /\ result.score = 100

\* The getFinancialData calls completed by the invocation in flight during
\* which the table did not change.
StableCalls ==
    IF op = "insights"
    THEN {loc.calls[n] : n \in {k \in DOMAIN loc.calls : loc.calls[k].stable}}
    ELSE {}

\* The rows of a call's user and interval in the table the call read.
CallRows(c) == InPeriod(c.table, c.userId, c.startDate, c.endDate)

\* C9: totalExpenses equals the sum of the breakdown's amounts (and of the
\* user's expense rows in the interval); the breakdown is sorted by amount
\* descending; each percentage is amount / totalExpenses x 100, 0 when
\* totalExpenses is 0.
C9_BreakdownSumsToTotal ==
    \A c \in StableCalls :
        LET cb == c.data.categoryBreakdown
            total == c.data.totalExpenses
        IN  /\ total = SumSeqAmount(cb)
            /\ total = SumAmount(c.table,
                          {i \in CallRows(c) : c.table[i].transaction_type = "expense"})
            /\ \A i, j \in DOMAIN cb : i < j => cb[i].amount >= cb[j].amount
            /\ \A i \in DOMAIN cb :
                  IF total = 0 THEN cb[i].percentage.num = 0
                  ELSE cb[i].percentage.num * total
                       = cb[i].amount * 100 * cb[i].percentage.den

\* C10: in the payment-method breakdown each label (a missing method being
\* "Not specified") appears in exactly one entry, whose amount and count are
\* the sum and number of all the user's transactions in the interval that
\* carry the label.
C10_OneEntryPerLabel ==
    \A c \in StableCalls :
        LET pm == c.data.paymentMethods
            Labelled(l) == {i \in CallRows(c) : MethodLabel(c.table[i].payment_method) = l}
        IN  /\ \A i, j \in DOMAIN pm : pm[i].method = pm[j].method => i = j
            /\ {pm[i].method : i \in DOMAIN pm}
               = {MethodLabel(c.table[i].payment_method) : i \in CallRows(c)}
            /\ \A i \in DOMAIN pm :
                  /\ pm[i].amount = SumAmount(c.table, Labelled(pm[i].method))
                  /\ pm[i].count = Cardinality(Labelled(pm[i].method))

\* A step of getFinancialData.
FdStep == FdTotals \/ FdCategories \/ FdTrends \/ FdPayments

\* Two calls of the invocation with the same arguments that read the same
\* table, no insert having happened from the first query of the one to the
\* last query of the other.
SameInput(c, d) ==
    /\ c.stable /\ d.stable /\ c.table = d.table
    /\ c.userId = d.userId /\ c.startDate = d.startDate /\ c.endDate = d.endDate

C11_Calls == IF op = "insights" THEN {loc.calls[n] : n \in DOMAIN loc.calls} ELSE {}

\* C11: getFinancialData leaves the stored rows and the categories unchanged;
\* two calls with the same user and interval and no insert in between return
\* identical results; with no matching rows the totals are 0 and the three
\* lists empty.
C11_ReadOnlyRepeatable ==
    /\ [][FdStep => UNCHANGED <<expenses, categories>>]_vars
    /\ [](\A c, d \in C11_Calls : SameInput(c, d) => c.data = d.data)
    /\ [](\A c \in StableCalls :
            CallRows(c) = {} =>
                /\ c.data.totalIncome = 0 /\ c.data.totalExpenses = 0
                /\ c.data.categoryBreakdown = <<>>
                /\ c.data.dailyTrends = <<>>
                /\ c.data.paymentMethods = <<>>)

Parsed == op = "parse" /\ pc = "done"

\* The entry has the currency symbol directly followed by a digit.
HasCurrencyAmount(entry) ==
    \E i \in 1..(Len(entry) - 1) : entry[i] = Rupee /\ entry[i + 1] \in Digits

\* The digits of the first currency amount read as a whole number: the run
\* of digits and commas after the symbol, ending before a comma that no
\* digit follows and before the decimal point.
RECURSIVE RefWhole(_, _, _)
RefWhole(entry, i, acc) ==
    IF i <= Len(entry) /\ entry[i] \in Digits
    THEN RefWhole(entry, i + 1, acc * 10 + DigitVal(entry[i]))
    ELSE IF i + 1 <= Len(entry) /\ entry[i] = "," /\ entry[i + 1] \in Digits
         THEN RefWhole(entry, i + 1, acc)
         ELSE acc
RefAmount(entry) ==
    IF HasCurrencyAmount(entry)
    THEN RefWhole(entry, 1 + (CHOOSE i \in 1..(Len(entry) - 1) :
                        /\ entry[i] = Rupee /\ entry[i + 1] \in Digits
                        /\ \A j \in 1..(i - 1) :
                              ~(entry[j] = Rupee /\ entry[j + 1] \in Digits)), 0)
    ELSE 100

\* C12: for every text, the empty one included, parseExpenseWithFallback
\* returns a record with a category of the fixed list, transactionType
\* expense or income, confidence 0.7, a description of at most 100
\* characters (the text, cut after 100), and the parsed currency amount, or
\* 100 when the text has no currency-symbol amount.
C12_FallbackTotal ==
    Parsed =>
        /\ outcome = "returned"
        /\ DOMAIN result = {"amount", "description", "category", "transactionType",
                            "merchantName", "confidence"}
        /\ \E n \in DOMAIN CategoryNames : result.category = CategoryNames[n]
        /\ result.transactionType \in {"expense", "income"}
        /\ result.confidence = 70
        /\ Len(result.description) <= 100
        /\ result.description = SubSeq(args, 1, Len(result.description))
        /\ (Len(args) <= 100 => result.description = args)
        /\ result.amount = RefAmount(args)

\* C12 witness: the empty text was parsed.
C12_Witness ==
    Parsed /\ args = <<>> /\ result.amount = 100 /\ result.category = "Miscellaneous"

\* The word occurs in the text, letter case ignored (the word is lower case).
OccursIgnoringCase(text, word) ==
    \E i \in 1..(Len(text) - Len(word) + 1) :
        \A k \in 1..Len(word) : LowerChar(text[i + k - 1]) = word[k]

TaxiFoodText ==
    <<"T", "a", "x", "i", " ", "t", "o", " ", "F", "O", "O", "D", " ", "c", "o", "u", "r", "t">>

\* C13: the category is that of the first entry of the keyword table, in
\* table order, whose keyword occurs in the text (case ignored), and
\* Miscellaneous when none occurs; the text of scenario 1, "Paid" the rupee
\* sign "500 for groceries at BigBazaar", gives amount 500, Food & Dining,
\* expense, merchant BigBazaar, confidence 0.7.
C13_FirstKeywordWins ==
    Parsed =>
        LET hits == {n \in DOMAIN categoryMap : OccursIgnoringCase(args, categoryMap[n][1])}
        IN  /\ hits = {} => result.category = "Miscellaneous"
            /\ \A n \in hits :
                  (\A k \in hits : n <= k) => result.category = categoryMap[n][2]
            /\ args = Scenario1Text =>
                  /\ result.amount = 500
                  /\ result.category = "Food & Dining"
                  /\ result.transactionType = "expense"
                  /\ result.merchantName = Some(<<"B", "i", "g", "B", "a", "z", "a", "a", "r">>)
                  /\ result.confidence = 70

\* C13 witness: a text was parsed in which "taxi" comes before "food" while
\* "food" comes first in the table.
C13_Witness ==
    Parsed /\ args = TaxiFoodText /\ result.category = "Food & Dining"

\* C14: when getInsights is asked for advice, generateAIRecommendations does
\* not raise and the list it returns is never empty; when the agent is
\* unavailable or fails, the list is one of the fixed fallback lists.
C14_AdviceNeverEmpty ==
    (op = "insights" /\ pc = "done" /\ args.includeAdvice /\ "db" \notin fault) =>
        /\ outcome = "returned" /\ result.success
        /\ result.recommendations # <<>>
        /\ "ai" \in fault => result.recommendations \in {FallbackOnEmpty, FallbackOnError}

\* The comparison-period call of the invocation failed after the
\* current-period call had returned.
ComparisonFailed ==
    /\ op = "insights" /\ pc = "done" /\ args.includeComparison
    /\ loc.currentData # None /\ loc.comparisonData = None /\ "db" \in fault

\* C15: when the current-period aggregation succeeded and the
\* comparison-period aggregation failed, getInsights returns success=true
\* with the current period's totals, breakdowns and health assessment, and
\* only the comparison is left out.
C15_ComparisonDegrades ==
    ComparisonFailed =>
        /\ result.success
        /\ result.insights.totalIncome = loc.currentData[1].totalIncome
        /\ result.insights.totalExpenses = loc.currentData[1].totalExpenses
        /\ result.insights.topExpenseCategories = loc.currentData[1].categoryBreakdown
        /\ result.insights.spendingTrends = loc.currentData[1].dailyTrends
        /\ result.insights.paymentMethodBreakdown = loc.currentData[1].paymentMethods
        /\ result.financialHealth = calculateFinancialHealth(loc.currentData[1])
        /\ result.insights.comparison = None

\* The categorization agent was absent, raised or returned no object.
ExtractionFailed == op = "add" /\ "ai" \in fault

\* C16: when the categorization agent is absent, raises or returns no
\* structured object, addExpense goes on with the record of
\* parseExpenseWithFallback on the entry text, through the category lookup
\* to the insert; it reports failure only if something else failed too.
C16_FallbackOnAgentFailure ==
    ExtractionFailed =>
        /\ pc \in {"lookup", "insert", "done"}
        /\ loc.extracted = Some(parseExpenseWithFallback(args.naturalLanguageEntry))
        /\ pc = "done" =>
              /\ outcome = "returned"
              /\ result.success = ("db" \notin fault /\ "notfound" \notin fault)
              /\ result.success =>
                    /\ result.expenseId \in DOMAIN expenses
                    /\ expenses[result.expenseId]
                       = NewRow(args, parseExpenseWithFallback(args.naturalLanguageEntry),
                                loc.categoryId[1], now)

\* C16 witness: an addExpense whose agent failed ended with the insert of
\* the fallback record.
C16_Witness ==
    /\ ExtractionFailed /\ pc = "done" /\ result.success
    /\ expenses[result.expenseId].ai_confidence_score = Some(FallbackConfidence)

\* C17: every stored row has an amount above 0 and the kind expense or
\* income, whatever the entry texts, amount overrides and extraction results
\* of the addExpense invocations so far.
C17_StoredRowsValid ==
    \A i \in DOMAIN expenses :
        /\ expenses[i].amount > 0
        /\ expenses[i].transaction_type \in {"expense", "income"}

\* The result of viewExpenses carries the high-activity insight.
HasHighActivity(r) == \E k \in DOMAIN r.insights : r.insights[k][1] = "active"

\* C18: viewExpenses reports high activity exactly when more than 20
\* transactions of the user match the filters, whatever the limit.
C18_HighActivityByTotal ==
    (op = "view" /\ pc = "done" /\ result.success) =>
        (HasHighActivity(result)
            <=> Cardinality(ViewMatches(expenses, categories, args)) > 20)

\* C19: a step of an addExpense invocation either leaves the stored rows as
\* they are, and then does not report success, or it is the insert: it
\* appends one row, keeps every other row, and returns success=true with the
\* new row's id; an invocation whose category is not in the table ends with
\* success=false and the rows unchanged.
C19_AtMostOneInsert ==
    [][((op = "add" \/ op' = "add") /\ pc' # pc) =>
          /\ \/ /\ expenses' = expenses
                /\ ~(op' = "add" /\ pc' = "done" /\ result'.success)
             \/ /\ pc = "insert" /\ pc' = "done" /\ result'.success
                /\ Len(expenses') = Len(expenses) + 1
                /\ SubSeq(expenses', 1, Len(expenses)) = expenses
                /\ result'.expenseId = Len(expenses')
          /\ (pc = "lookup" /\ \A c \in categories : c.name # loc.extracted[1].category) =>
                (pc' = "done" /\ ~result'.success /\ expenses' = expenses)
          /\ (pc = "insert" /\ pc' = "done") => (result'.success \/ "db" \in fault')
    ]_vars

\* C19 witness: an addExpense whose category is not in the table returned
\* failure.
C19_Witness ==
    op = "add" /\ pc = "done" /\ "notfound" \in fault /\ ~result.success

\* The report step has returned.
Reported == op = "report" /\ pc = "done"

\* C20: reportsGenerated is the number of users whose getInsights returned
\* success=true, at most the number of users processed (one); at most 10
\* insight strings are returned; the step returns success=true also when
\* getInsights reported failure (reportsGenerated = 0), and success=false
\* only when the step itself raised.
C20_ReportCounts ==
    Reported =>
        LET called == loc.insightsResult # None
        IN  /\ outcome = "returned"
            /\ result.reportsGenerated
               = (IF called /\ loc.insightsResult[1].success THEN 1 ELSE 0)
            /\ result.reportsGenerated <= 1
            /\ Len(result.insights) <= 10
            /\ result.success = called
            /\ (called /\ ~loc.insightsResult[1].success) =>
                  (result.success /\ result.reportsGenerated = 0 /\ result.insights = <<>>)
            /\ (called /\ loc.insightsResult[1].success) =>
                  result.insights = loc.insightsResult[1].recommendations

\* C20 witness: getInsights reported failure and the step returned
\* success=true with no report generated.
C20_Witness ==
    /\ Reported /\ loc.insightsResult # None /\ ~loc.insightsResult[1].success
    /\ result.success /\ result.reportsGenerated = 0

=============================================================================
